---- MODULE Spec2Model ----
(***************************************************************************)
(* The two platform-dispatch launchers of the repository, build.py and     *)
(* check.py.  One run of one launcher is one behaviour: the interpreter    *)
(* executes the module body statement by statement, the operating system   *)
(* creates (or refuses to create) the child process, the child runs and    *)
(* exits, the interpreter exits.                                           *)
(***************************************************************************)
EXTENDS Integers, Sequences, FiniteSets, TLC

\* ---------------------------------------------------------------- bounds
\* Largest number of user-supplied arguments after argv[0].
MaxArgs == 2
\* The spawn counters saturate here (the code never reaches it).
MaxAttempts == 2

\* ------------------------------------------------------------ input sets
Launchers == {"build", "check"}
\* Values of sys.platform the run may see.
Platforms == {"win32", "linux", "linux2", "darwin", "cygwin"}
\* User-supplied arguments.
ArgPool == {"--release", "-v"}
\* Exit statuses of a process.
ExitCodes == 0..255

\* argv[0] as the interpreter sets it for each script.
ScriptName(l) == IF l = "build" THEN "build.py" ELSE "check.py"

\* All argument vectors: the script name followed by 0..MaxArgs arguments.
ArgVectors(l) ==
    UNION {
        { <<ScriptName(l)>> \o t : t \in [1..n -> ArgPool] }
        : n \in 0..MaxArgs }

\* Saturating increment of a spawn counter.
Bump(n) == IF n < MaxAttempts THEN n + 1 ELSE n

\* ------------------------------------------------------------------ state
VARIABLES
    launcher,    \* which script runs: "build" or "check"
    platform,    \* sys.platform
    runnable,    \* the OS can execute the resolved script (exists, executable)
    argv0,       \* the argument vector the launcher was started with
    sys_argv,    \* sys.argv (the list object)
    args,        \* the name args; bound to the sys.argv list object
    pc,          \* position of the interpreter in the module body
    child,       \* "none", "running" or "exited"
    childArgs,   \* argument vector the child was created with
    returncode,  \* exit status of the child, once it has exited
    result,      \* value returned by subprocess.call
    exitCode,    \* exit status of the launcher, once it has exited
    traceback,   \* the launcher died of an uncaught exception
    attempts,    \* process creations attempted
    spawned      \* child processes created

vars == <<launcher, platform, runnable, argv0, sys_argv, args, pc, child,
          childArgs, returncode, result, exitCode, traceback, attempts,
          spawned>>

env == <<launcher, platform, runnable, argv0>>

\* -1 stands for "no status yet" in returncode, result and exitCode.
Init ==
    /\ launcher \in Launchers
    /\ platform \in Platforms
    /\ runnable \in BOOLEAN
    /\ argv0 \in ArgVectors(launcher)
    /\ sys_argv = argv0
    /\ args = <<>>
    /\ pc = "start"
    /\ child = "none"
    /\ childArgs = <<>>
    /\ returncode = -1
    /\ result = -1
    /\ exitCode = -1
    /\ traceback = FALSE
    /\ attempts = 0
    /\ spawned = 0

\* ---------------------------------------------------------------- helpers
\* A variant of the item assignment that rebuilds the list from the path alone.
SetArg0_drop(a, path) == <<path>>

\* args[0] = path
SetArg0(a, path) == [a EXCEPT ![1] = path]

\* ---------------------------------------------------------------- actions
\* args = sys.argv : the name args is bound to the same list object.
BindArgs ==
    /\ pc = "start"
    /\ args' = sys_argv
    /\ pc' = "branch"
    /\ UNCHANGED <<env, sys_argv, child, childArgs, returncode, result,
                   exitCode, traceback, attempts, spawned>>

\* The item assignment writes through to the one list both names denote.
Substitute(path) ==
    /\ args' = SetArg0(args, path)
    /\ sys_argv' = SetArg0(sys_argv, path)
    /\ pc' = "call"
    /\ UNCHANGED <<env, child, childArgs, returncode, result, exitCode,
                   traceback, attempts, spawned>>

\* A variant of the exit that reports failure.
SysExit_one ==
    /\ pc' = "exited"
    /\ exitCode' = 1
    /\ UNCHANGED <<env, sys_argv, args, child, childArgs, returncode, result,
                   traceback, attempts, spawned>>

\* sys.exit() with no argument: SystemExit(None), the interpreter exits 0.
SysExit ==
    /\ pc' = "exited"
    /\ exitCode' = 0
    /\ UNCHANGED <<env, sys_argv, args, child, childArgs, returncode, result,
                   traceback, attempts, spawned>>

\* A variant of the Windows branch that writes the path with forward slashes.
BuildWin32_slash ==
    /\ pc = "branch"
    /\ launcher = "build"
    /\ platform = "win32"
    /\ Substitute("platform-scripts/windows/build.bat")

\* build.py: if sys.platform == "win32"
BuildWin32 ==
    /\ pc = "branch"
    /\ launcher = "build"
    /\ platform = "win32"
    /\ Substitute("platform-scripts\\windows\\build.bat")

\* build.py: elif sys.platform == "linux" or sys.platform == "linux2"
BuildLinux ==
    /\ pc = "branch"
    /\ launcher = "build"
    /\ platform # "win32"
    /\ platform = "linux" \/ platform = "linux2"
    /\ Substitute("platform-scripts/linux/build.sh")

\* build.py: else: sys.exit()
BuildElse ==
    /\ pc = "branch"
    /\ launcher = "build"
    /\ platform # "win32"
    /\ ~(platform = "linux" \/ platform = "linux2")
    /\ SysExit

\* A variant of the check branch that uses the utils directory.
CheckLinux_utils ==
    /\ pc = "branch"
    /\ launcher = "check"
    /\ platform = "linux" \/ platform = "linux2"
    /\ Substitute("utils/linux/check.sh")

\* check.py: if sys.platform == "linux" or sys.platform == "linux2"
CheckLinux ==
    /\ pc = "branch"
    /\ launcher = "check"
    /\ platform = "linux" \/ platform = "linux2"
    /\ Substitute("platform-scripts/linux/check.sh")

\* A variant of the check else-branch that lets Windows through.
CheckElse_win ==
    /\ pc = "branch"
    /\ launcher = "check"
    /\ ~(platform = "linux" \/ platform = "linux2")
    /\ IF platform = "win32"
         THEN Substitute("platform-scripts\\windows\\check.bat")
         ELSE SysExit

\* check.py: else: sys.exit()
CheckElse ==
    /\ pc = "branch"
    /\ launcher = "check"
    /\ ~(platform = "linux" \/ platform = "linux2")
    /\ SysExit

\* A variant of the call that creates the child and does not wait for it.
Spawn_nowait ==
    /\ pc = "call"
    /\ runnable
    /\ attempts' = Bump(attempts)
    /\ spawned' = Bump(spawned)
    /\ child' = "running"
    /\ childArgs' = args
    /\ pc' = "end"
    /\ UNCHANGED <<env, sys_argv, args, returncode, result, exitCode,
                   traceback>>

\* subprocess.call(args, cwd="."): the process is created with args; the
\* call then blocks in wait().
Spawn ==
    /\ pc = "call"
    /\ runnable
    /\ attempts' = Bump(attempts)
    /\ spawned' = Bump(spawned)
    /\ child' = "running"
    /\ childArgs' = args
    /\ pc' = "wait"
    /\ UNCHANGED <<env, sys_argv, args, returncode, result, exitCode,
                   traceback>>

\* A variant of the failing call that tries again.
SpawnFail_retry ==
    /\ pc = "call"
    /\ ~runnable
    /\ attempts' = Bump(attempts)
    /\ pc' = "call"
    /\ UNCHANGED <<env, sys_argv, args, child, childArgs, returncode, result,
                   exitCode, traceback, spawned>>

\* subprocess.call(args, cwd="."): process creation fails, OSError is raised;
\* nothing in the module catches it, the interpreter prints the traceback
\* and exits 1.
SpawnFail ==
    /\ pc = "call"
    /\ ~runnable
    /\ attempts' = Bump(attempts)
    /\ traceback' = TRUE
    /\ exitCode' = 1
    /\ pc' = "exited"
    /\ UNCHANGED <<env, sys_argv, args, child, childArgs, returncode, result,
                   spawned>>

\* The child process exits with some status k.
ChildExit ==
    /\ child = "running"
    /\ \E k \in ExitCodes :
          returncode' = k
    /\ child' = "exited"
    /\ UNCHANGED <<env, sys_argv, args, pc, childArgs, result, exitCode,
                   traceback, attempts, spawned>>

\* A variant of the return that runs the script again after a failure.
CallReturn_retry ==
    /\ pc = "wait"
    /\ child = "exited"
    /\ result' = returncode
    /\ pc' = IF returncode # 0 THEN "call" ELSE "end"
    /\ UNCHANGED <<env, sys_argv, args, child, childArgs, returncode,
                   exitCode, traceback, attempts, spawned>>

\* wait() returns: subprocess.call returns the child's status.  The call is
\* an expression statement, so the value is not bound to anything.
CallReturn ==
    /\ pc = "wait"
    /\ child = "exited"
    /\ result' = returncode
    /\ pc' = "end"
    /\ UNCHANGED <<env, sys_argv, args, child, childArgs, returncode,
                   exitCode, traceback, attempts, spawned>>

\* End of the module body: the interpreter exits 0.
ModuleEnd ==
    /\ pc = "end"
    /\ exitCode' = 0
    /\ pc' = "exited"
    /\ UNCHANGED <<env, sys_argv, args, child, childArgs, returncode, result,
                   traceback, attempts, spawned>>

\* The steps the launcher itself takes.
LauncherStep ==
    \/ BindArgs
    \/ BuildWin32
    \/ BuildLinux
    \/ BuildElse
    \/ CheckLinux
    \/ CheckElse
    \/ Spawn
    \/ SpawnFail
    \/ CallReturn
    \/ ModuleEnd

Next ==
    \/ LauncherStep
    \/ ChildExit

Spec == Init /\ [][Next]_vars

\* The interpreter keeps executing, and the child eventually exits.
FairSpec == Spec /\ WF_vars(LauncherStep) /\ WF_vars(ChildExit)

\* ------------------------------------------------------------ vocabulary
Terminated == pc = "exited"

Supported ==
    IF launcher = "build"
      THEN platform \in {"win32", "linux", "linux2"}
      ELSE platform \in {"linux", "linux2"}

\* The platform identifiers some launcher recognizes.
Recognized == {"win32", "linux", "linux2"}

\* The launcher is past its platform branch with a resolved path in args.
Resolved == pc \in {"call", "wait", "end"} \/ attempts > 0

\* ----------------------------------------------------------------- claims
\* C1: whenever the child was spawned and exited with code k, the launcher
\* terminates with exit code exactly k.
ExitCodePropagated ==
    Terminated /\ child = "exited" => exitCode = returncode

\* C2: the argument vector handed to the child has the length of the input
\* vector, element 0 is the path the launcher resolved, and every later
\* element equals the input element at the same index.
ChildArgsPreserved ==
    child # "none" =>
        /\ Len(childArgs) = Len(argv0)
        /\ childArgs[1] = args[1]
        /\ childArgs[1] \in {"platform-scripts\\windows\\build.bat",
                             "platform-scripts/linux/build.sh",
                             "platform-scripts/linux/check.sh"}
        /\ \A i \in 2..Len(argv0) : childArgs[i] = argv0[i]

ChildArgsPreservedWitness ==
    /\ child # "none"
    /\ Len(argv0) >= 3
    /\ argv0[2] # argv0[3]

\* C3: on a platform identifier that is none of the recognized values no
\* launcher ever attempts a spawn, and it terminates with exit code 0.
UnsupportedNoSpawnExitZero ==
    platform \notin Recognized =>
        /\ attempts = 0
        /\ spawned = 0
        /\ child = "none"
        /\ pc \in {"start", "branch", "exited"}
        /\ Terminated => exitCode = 0 /\ ~traceback

UnsupportedNoSpawnExitZeroWitness ==
    /\ platform = "darwin"
    /\ Terminated
    /\ exitCode = 0

\* C4: in the build launcher the path in element 0 is the Windows batch
\* file on win32 and the Linux shell script on linux and linux2, and no
\* spawn is attempted with any other path.
BuildPathExact ==
    launcher = "build" /\ Resolved =>
        /\ platform \in Recognized
        /\ platform = "win32" =>
              args[1] = "platform-scripts\\windows\\build.bat"
        /\ platform \in {"linux", "linux2"} =>
              args[1] = "platform-scripts/linux/build.sh"
        /\ child # "none" => childArgs[1] = args[1]

BuildPathExactWitness ==
    /\ launcher = "build"
    /\ platform = "win32"
    /\ child = "running"

\* C5: when the platform is supported and the spawn attempt fails with an OS
\* error, the launcher terminates with a non-zero exit code, and not through
\* an uncaught exception.
LaunchFailureHandled ==
    Terminated /\ Supported /\ ~runnable => exitCode # 0 /\ ~traceback

\* C6: the launcher is never terminated while its child is still running.
NeverExitedBeforeChild ==
    ~(Terminated /\ child = "running")

NeverExitedBeforeChildWitness ==
    /\ Terminated
    /\ child = "exited"

\* C7: in the check launcher every spawn uses platform-scripts/linux/check.sh
\* as element 0, and utils/linux/check.sh is never used.
CheckPathExact ==
    launcher = "check" =>
        /\ Resolved =>
              /\ platform \in {"linux", "linux2"}
              /\ args[1] = "platform-scripts/linux/check.sh"
        /\ child # "none" => childArgs[1] = "platform-scripts/linux/check.sh"
        /\ \A i \in 1..Len(args) : args[i] # "utils/linux/check.sh"
        /\ \A i \in 1..Len(childArgs) : childArgs[i] # "utils/linux/check.sh"

CheckPathExactWitness ==
    /\ launcher = "check"
    /\ platform = "linux2"
    /\ child = "running"

\* C8: a run makes at most one spawn attempt and creates at most one child;
\* no second attempt follows a failed attempt or a non-zero child exit.
AtMostOneSpawn ==
    /\ attempts <= 1
    /\ spawned <= attempts
    /\ traceback => attempts = 1 /\ spawned = 0 /\ Terminated
    /\ child = "exited" /\ returncode # 0 => pc \in {"wait", "end", "exited"}

AtMostOneSpawnWitness ==
    /\ Terminated
    /\ attempts = 1
    /\ spawned = 1
    /\ returncode > 0

\* C9: on win32 the build launcher attempts a spawn of build.bat, while the
\* check launcher spawns nothing and exits 0; the check launcher spawns
\* nothing on any platform other than linux and linux2.
LaunchersDisagreeOnWindows ==
    /\ launcher = "build" /\ platform = "win32" /\ Terminated =>
          /\ attempts = 1
          /\ runnable => spawned = 1 /\ child = "exited"
          /\ args[1] = "platform-scripts\\windows\\build.bat"
    /\ launcher = "check" /\ platform \notin {"linux", "linux2"} =>
          /\ attempts = 0
          /\ spawned = 0
          /\ child = "none"
          /\ Terminated => exitCode = 0 /\ ~traceback

LaunchersDisagreeOnWindowsWitness ==
    /\ launcher = "check"
    /\ platform = "win32"
    /\ Terminated

\* C10: every run terminates provided the child, if any, terminates; the only
\* state in which the launcher can take no step before that is the wait for a
\* running child.
EventuallyTerminates ==
    /\ <>Terminated
    /\ [](~Terminated /\ ~ENABLED LauncherStep =>
              pc = "wait" /\ child = "running")

EventuallyTerminatesWitness ==
    /\ Terminated
    /\ spawned = 1
    /\ result = returncode
    /\ result > 1

TypeOK ==
    /\ launcher \in Launchers
    /\ platform \in Platforms
    /\ runnable \in BOOLEAN
    /\ pc \in {"start", "branch", "call", "wait", "end", "exited"}
    /\ child \in {"none", "running", "exited"}
    /\ returncode \in ExitCodes \cup {-1}
    /\ result \in ExitCodes \cup {-1}
    /\ exitCode \in ExitCodes \cup {-1}
    /\ traceback \in BOOLEAN
    /\ attempts \in 0..MaxAttempts
    /\ spawned \in 0..MaxAttempts

====
